---- MODULE Spec2Model ----
(***************************************************************************)
(* Model of mapper_eng.py: the name normaliser (normalize), the ISO3       *)
(* matcher (match_iso3) and the batch run that annotates the dataset.      *)
(*                                                                         *)
(* Text is a sequence of one-character strings.  A spreadsheet cell is a   *)
(* record [kind, val]: kind "text" with its characters, kind "nan" for an  *)
(* empty cell (pandas reads it as the float NaN), kind "num" for a number  *)
(* cell with the digits str() prints.                                      *)
(***************************************************************************)
EXTENDS Integers, Sequences, FiniteSets, TLC

VARIABLES
    pc,            \* position in the script / in the call under study
    text,          \* normalize: the argument
    normalized,    \* normalize: the value returned for text
    renormalized,  \* normalize: the value returned for the first result
    area,          \* match_iso3: the argument
    ret,           \* match_iso3: the value returned (or the exception raised)
    loaded,        \* the input files read_excel has returned so far
    fileB,         \* the content of id=24.xlsx as read
    id24,          \* the dataset DataFrame
    country,       \* the reference DataFrame (rows longName_EN, shortName_EN, ISO3Code)
    norm_long,     \* country['norm_long']
    norm_short,    \* country['norm_short']
    all_names,     \* the candidate pool, in the order unique() keeps
    score,         \* the similarity primitive on the pairs that can be asked
    outfile        \* the content of id=24_with_fuzzy_ISO3.xlsx, or NotWritten

vars == <<pc, text, normalized, renormalized, area, ret, loaded, fileB, id24,
          country, norm_long, norm_short, all_names, score, outfile>>

(***************************************************************************)
(* Bounds of the model.                                                    *)
(***************************************************************************)
\* longest text drawn for normalize
MaxLen == 4
\* most rows of a reference table handed to match_iso3
MaxRows == 2
\* most rows of the reference table of a whole run
MaxRunRows == 2
\* most rows of the dataset of a whole run
MaxData == 2

(***************************************************************************)
(* Characters.                                                             *)
(***************************************************************************)
Range(s) == {s[i] : i \in 1..Len(s)}

UpperLetters == <<"A", "B", "C", "D", "E", "F", "G", "H", "I", "J", "K", "L", "M",
                  "N", "O", "P", "Q", "R", "S", "T", "U", "V", "W", "X", "Y", "Z">>
LowerLetters == <<"a", "b", "c", "d", "e", "f", "g", "h", "i", "j", "k", "l", "m",
                  "n", "o", "p", "q", "r", "s", "t", "u", "v", "w", "x", "y", "z">>
Digits == <<"0", "1", "2", "3", "4", "5", "6", "7", "8", "9">>

\* str.lower() on one character
lower_char(c) ==
    IF \E i \in 1..Len(UpperLetters) : UpperLetters[i] = c
    THEN LowerLetters[CHOOSE i \in 1..Len(UpperLetters) : UpperLetters[i] = c]
    ELSE c

\* the characters str.strip() removes
IsSpace(c) == c \in {" ", "\n", "\t", "\r"}

\* the characters '.' of a pattern matches (no DOTALL flag: all but the newline)
IsDot(c) == c # "\n"

\* the class [a-z0-9 ] of line 9
IsKept(c) == c \in Range(LowerLetters) \cup Range(Digits) \cup {" "}

\* the class \w, which decides where \b holds
IsWord(c) == c \in Range(LowerLetters) \cup Range(UpperLetters) \cup Range(Digits) \cup {"_"}

(***************************************************************************)
(* Cells and str().                                                        *)
(***************************************************************************)
Text(s) == [kind |-> "text", val |-> s]
NaN == [kind |-> "nan", val |-> <<>>]
Num(s) == [kind |-> "num", val |-> s]

\* str(text) of line 7
str(cell) == IF cell.kind = "nan" THEN <<"n", "a", "n">> ELSE cell.val

(***************************************************************************)
(* normalize, lines 6-11.                                                  *)
(***************************************************************************)
lower(s) == [i \in 1..Len(s) |-> lower_char(s[i])]

RECURSIVE lstrip(_)
lstrip(s) == IF s # <<>> /\ IsSpace(Head(s)) THEN lstrip(Tail(s)) ELSE s

RECURSIVE rstrip(_)
rstrip(s) ==
    IF s # <<>> /\ IsSpace(s[Len(s)]) THEN rstrip(SubSeq(s, 1, Len(s) - 1)) ELSE s

strip(s) == rstrip(lstrip(s))

\* where the non-greedy \(.*?\) that starts at s[1] = "(" ends: the first ")"
\* with only '.'-characters before it; 0 when the pattern does not match there
paren_end(s) ==
    LET closes == {j \in 2..Len(s) :
                       s[j] = ")" /\ \A k \in 2..(j - 1) : IsDot(s[k])}
    IN  IF closes = {} THEN 0
        ELSE CHOOSE j \in closes : \A k \in closes : j <= k

\* re.sub(r'\(.*?\)', '', s): leftmost matches, left to right, not overlapping
RECURSIVE sub_parens(_)
sub_parens(s) ==
    IF s = <<>> THEN <<>>
    ELSE IF Head(s) = "(" /\ paren_end(s) > 0
         THEN sub_parens(SubSeq(s, paren_end(s) + 1, Len(s)))
         ELSE <<Head(s)>> \o sub_parens(Tail(s))

\* re.sub(r'[^a-z0-9 ]', '', s)
sub_special(s) == SelectSeq(s, IsKept)

\* \bthe\b matches at position i of s
the_at(s, i) ==
    /\ i + 2 <= Len(s)
    /\ s[i] = "t" /\ s[i + 1] = "h" /\ s[i + 2] = "e"
    /\ (i = 1 \/ ~IsWord(s[i - 1]))
    /\ (i + 2 = Len(s) \/ ~IsWord(s[i + 3]))

\* re.sub(r'\bthe\b', '', s), scanning from position i
RECURSIVE sub_the_from(_, _)
sub_the_from(s, i) ==
    IF i > Len(s) THEN <<>>
    ELSE IF the_at(s, i) THEN sub_the_from(s, i + 3)
         ELSE <<s[i]>> \o sub_the_from(s, i + 1)

sub_the(s) == sub_the_from(s, 1)

\* normalize as it would be without the closing strip() of line 11
normalize_unstripped(cell) == sub_the(sub_special(sub_parens(strip(lower(str(cell))))))

normalize(cell) == strip(sub_the(sub_special(sub_parens(strip(lower(str(cell)))))))

TheBahamas == <<"T", "h", "e", " ", "B", "a", "h", "a", "m", "a", "s">>

\* the output file before to_excel has run
NotWritten == [written |-> FALSE, rows |-> <<>>]

(***************************************************************************)
(* The reference table and the candidate pool, lines 17-24.               *)
(***************************************************************************)
Czechia == <<"c", "z", "e", "c", "h", "i", "a">>

\* the threshold of line 38
Threshold == 90

\* what match_iso3 hands back besides an ISO3 code: the None of line 44, and
\* the TypeError of line 35 when extractOne has nothing to return
None == "None"
TypeError == "TypeError"

\* Series.apply(normalize) over one name column of the table
apply_normalize(table, column) ==
    [i \in 1..Len(table) |-> normalize(table[i][column])]

\* Series.unique(): first occurrences, in order
RECURSIVE unique(_)
unique(s) ==
    IF s = <<>> THEN <<>>
    ELSE LET front == unique(SubSeq(s, 1, Len(s) - 1))
         IN  IF s[Len(s)] \in Range(front) THEN front ELSE Append(front, s[Len(s)])

\* the pool as it would be with the long names alone
concat_long_only(longs, shorts) == unique(longs)

\* pd.concat([norm_long, norm_short]).dropna().unique() of line 24; the
\* normalized names are all strings, so dropna() drops nothing
concat_unique(longs, shorts) == unique(longs \o shorts)

(***************************************************************************)
(* process.extractOne, as line 35 calls it: default processor and scorer.  *)
(* The scorer is the library's; of it the model fixes only what the        *)
(* library guarantees: a score is an integer of 0..100, it is 0 when the   *)
(* query or the candidate is empty, and 100 when the two are the same      *)
(* non-empty string.  Its value on any other pair is drawn from OffScores. *)
(***************************************************************************)
OffScores == {89, 90, 100}

FreePairs(queries, cands) ==
    {p \in queries \X cands : p[1] # <<>> /\ p[2] # <<>> /\ p[1] # p[2]}

Scorers(queries, cands) ==
    {[p \in queries \X cands |->
          IF p[1] = <<>> \/ p[2] = <<>> THEN 0
          ELSE IF p[1] = p[2] THEN 100
          ELSE g[p]] : g \in [FreePairs(queries, cands) -> OffScores]}

\* the queries match_iso3 passes on to extractOne for these area cells
Queries(cells) == {normalize(c) : c \in cells} \ {Czechia}

\* extractOne(query, choices): <<>> for the library's None (no choices), else
\* the pair <<choice, score>> that max() keeps: the first of the best
extractOne(query, choices) ==
    IF choices = <<>> THEN <<>>
    ELSE LET i == CHOOSE i \in 1..Len(choices) :
                      /\ \A j \in 1..Len(choices) :
                             score[<<query, choices[j]>>] <= score[<<query, choices[i]>>]
                      /\ \A j \in 1..(i - 1) :
                             score[<<query, choices[j]>>] < score[<<query, choices[i]>>]
         IN  <<choices[i], score[<<query, choices[i]>>]>>

(***************************************************************************)
(* match_iso3, lines 27-44.                                                *)
(***************************************************************************)
RowNumbers == [i \in 1..Len(country) |-> i]

\* the row selection of line 39 with the long names alone
row_for_long_only(match) ==
    SelectSeq(RowNumbers, LAMBDA i : norm_long[i] = match)

\* country[(norm_long == match) | (norm_short == match)], as row numbers
row_for(match) ==
    SelectSeq(RowNumbers, LAMBDA i : norm_long[i] = match \/ norm_short[i] = match)

\* lines 35-44 with the comparison of line 38 made strict
fuzzy_match_strict(norm_area) ==
    LET best == extractOne(norm_area, all_names)
    IN  IF best = <<>> THEN TypeError
        ELSE IF best[2] > Threshold /\ row_for(best[1]) # <<>>
             THEN country[row_for(best[1])[1]].ISO3Code
             ELSE None

\* lines 35-44: the fuzzy match and the lookup of its row
fuzzy_match(norm_area) ==
    LET best == extractOne(norm_area, all_names)
    IN  IF best = <<>> THEN TypeError
        ELSE IF best[2] >= Threshold /\ row_for(best[1]) # <<>>
             THEN country[row_for(best[1])[1]].ISO3Code
             ELSE None

\* match_iso3 with the override of lines 31-32 left out
match_iso3_no_override(a) == fuzzy_match(normalize(a))

\* match_iso3 with the two-letter code in the override
match_iso3_iso2(a) ==
    IF normalize(a) = Czechia THEN "CZ" ELSE fuzzy_match(normalize(a))

match_iso3(a) ==
    IF normalize(a) = Czechia THEN "CZE" ELSE fuzzy_match(normalize(a))

(***************************************************************************)
(* Specification SpecMatch: one call of match_iso3 on a drawn area, with   *)
(* the tables of lines 17-24 built from a drawn reference table.           *)
(***************************************************************************)
Bahamas == <<"B", "a", "h", "a", "m", "a", "s">>
Atlantis == <<"A", "t", "l", "a", "n", "t", "i", "s">>

LongNames == {Text(<<"C", "z", "e", "c", "h", "i", "a">>), Text(TheBahamas),
              Text(<<"(", "x", ")">>)}
ShortNames == {Text(Bahamas), NaN}
Codes == {"AAA", "BBB"}

RefRows == [longName_EN : LongNames, shortName_EN : ShortNames, ISO3Code : Codes]

RECURSIVE SeqsUpTo(_, _)
SeqsUpTo(S, n) ==
    IF n = 0 THEN {<<>>}
    ELSE LET shorter == SeqsUpTo(S, n - 1)
         IN  shorter \cup {Append(s, x) : s \in {y \in shorter : Len(y) = n - 1},
                                          x \in S}

Areas ==
    LongNames \cup ShortNames
        \cup {Text(<<"C", "Z", "E", "C", "H", "I", "A", " ", "(", "c", "z", ")">>),
              Text(Atlantis), Num(<<"2", "4">>)}

InitMatch ==
    /\ pc = "match_call"
    /\ country \in SeqsUpTo(RefRows, MaxRows)
    /\ norm_long = apply_normalize(country, "longName_EN")
    /\ norm_short = apply_normalize(country, "shortName_EN")
    /\ all_names = concat_unique(norm_long, norm_short)
    /\ area \in Areas
    /\ score \in Scorers(Queries({area}), Range(all_names))
    /\ ret = "unset"
    /\ text = NaN
    /\ normalized = <<>>
    /\ renormalized = <<>>
    /\ loaded = {"country.xlsx"}
    /\ fileB = <<>>
    /\ id24 = <<>>
    /\ outfile = NotWritten

CallMatch ==
    /\ pc = "match_call"
    /\ ret' = match_iso3(area)
    /\ pc' = "match_returned"
    /\ UNCHANGED <<text, normalized, renormalized, area, loaded, fileB, id24, country,
                   norm_long, norm_short, all_names, score, outfile>>

NextMatch == CallMatch

SpecMatch == InitMatch /\ [][NextMatch]_vars

(***************************************************************************)
(* Specification Spec: the run of the script, one action per statement.    *)
(***************************************************************************)
\* the reference rows a run's country.xlsx is made of
RunRows ==
    {[longName_EN |-> Text(TheBahamas), shortName_EN |-> Text(Bahamas),
      ISO3Code |-> "AAA"],
     [longName_EN |-> Text(<<"C", "z", "e", "c", "h", "i", "a">>),
      shortName_EN |-> Text(<<"(", "x", ")">>), ISO3Code |-> "BBB"]}

\* the Area cells a run's id=24.xlsx is made of
RunAreas == {Text(TheBahamas), Text(<<"C", "z", "e", "c", "h", "i", "a">>),
             Text(Atlantis), NaN}

\* a dataset: column Area, a second column Obs holding the row's number in
\* the file, and, when hasCode, a column ISO3Code already there
DatasetOf(areas, hasCode) ==
    [i \in 1..Len(areas) |->
        IF hasCode THEN [Area |-> areas[i], Obs |-> i, ISO3Code |-> "OLD"]
        ELSE [Area |-> areas[i], Obs |-> i]]

Datasets ==
    {DatasetOf(a, h) : a \in SeqsUpTo(RunAreas, MaxData), h \in BOOLEAN}

\* Series.apply(match_iso3) giving every row the match of the first row
apply_match_first(column) ==
    [i \in 1..Len(column) |-> match_iso3(column[1])]

\* id24['Area'].apply(match_iso3) of line 47: one call per row, in row order
apply_match(column) ==
    [i \in 1..Len(column) |-> match_iso3(column[i])]

\* no call is ever seen to raise
raised_never(results) == FALSE

\* one of the calls of apply raised: the exception leaves apply and ends the run
raised(results) == \E i \in 1..Len(results) : results[i] = TypeError

\* df[name] = values: the column is replaced when df has it, added otherwise
set_column(df, name, values) ==
    [i \in 1..Len(df) |->
        [c \in (DOMAIN df[i]) \cup {name} |-> IF c = name THEN values[i] ELSE df[i][c]]]

\* df[name]
column_of(df, name) == [i \in 1..Len(df) |-> df[i][name]]

Init ==
    /\ pc = "load_id24"
    /\ loaded = {}
    /\ fileB = <<>>
    /\ id24 = <<>>
    /\ country = <<>>
    /\ norm_long = <<>>
    /\ norm_short = <<>>
    /\ all_names = <<>>
    /\ score = <<>>
    /\ outfile = NotWritten
    /\ text = NaN
    /\ normalized = <<>>
    /\ renormalized = <<>>
    /\ area = NaN
    /\ ret = "unset"

\* line 14: id24 = pd.read_excel("id=24.xlsx")
LoadId24 ==
    /\ pc = "load_id24"
    /\ \E d \in Datasets : fileB' = d /\ id24' = d
    /\ loaded' = loaded \cup {"id=24.xlsx"}
    /\ pc' = "load_country"
    /\ UNCHANGED <<text, normalized, renormalized, area, ret, country, norm_long,
                   norm_short, all_names, score, outfile>>

\* line 14 when the file is missing or malformed: read_excel raises
LoadId24Fails ==
    /\ pc = "load_id24"
    /\ pc' = "failed"
    /\ UNCHANGED <<text, normalized, renormalized, area, ret, loaded, fileB, id24,
                   country, norm_long, norm_short, all_names, score, outfile>>

\* line 17: country = pd.read_excel("country.xlsx")
LoadCountry ==
    /\ pc = "load_country"
    /\ country' \in SeqsUpTo(RunRows, MaxRunRows)
    /\ loaded' = loaded \cup {"country.xlsx"}
    /\ pc' = "norm_long"
    /\ UNCHANGED <<text, normalized, renormalized, area, ret, fileB, id24, norm_long,
                   norm_short, all_names, score, outfile>>

\* line 17 when the file is missing or malformed
LoadCountryFails ==
    /\ pc = "load_country"
    /\ pc' = "failed"
    /\ UNCHANGED <<text, normalized, renormalized, area, ret, loaded, fileB, id24,
                   country, norm_long, norm_short, all_names, score, outfile>>

\* line 20
NormLong ==
    /\ pc = "norm_long"
    /\ norm_long' = apply_normalize(country, "longName_EN")
    /\ pc' = "norm_short"
    /\ UNCHANGED <<text, normalized, renormalized, area, ret, loaded, fileB, id24,
                   country, norm_short, all_names, score, outfile>>

\* line 21
NormShort ==
    /\ pc = "norm_short"
    /\ norm_short' = apply_normalize(country, "shortName_EN")
    /\ pc' = "all_names"
    /\ UNCHANGED <<text, normalized, renormalized, area, ret, loaded, fileB, id24,
                   country, norm_long, all_names, score, outfile>>

\* line 24.  The scorer is a fixed function of the library; the run reads it
\* only on the pairs (normalized Area, candidate), which are known from here
\* on, so its values on them are drawn here.
BuildAllNames ==
    /\ pc = "all_names"
    /\ all_names' = concat_unique(norm_long, norm_short)
    /\ score' \in Scorers(Queries(Range(column_of(id24, "Area"))), Range(all_names'))
    /\ pc' = "apply"
    /\ UNCHANGED <<text, normalized, renormalized, area, ret, loaded, fileB, id24,
                   country, norm_long, norm_short, outfile>>

\* line 47: the column is assigned only when every call has returned
Apply ==
    /\ pc = "apply"
    /\ LET results == apply_match(column_of(id24, "Area"))
       IN  IF raised(results)
           THEN pc' = "failed" /\ id24' = id24
           ELSE pc' = "save" /\ id24' = set_column(id24, "ISO3Code", results)
    /\ UNCHANGED <<text, normalized, renormalized, area, ret, loaded, fileB, country,
                   norm_long, norm_short, all_names, score, outfile>>

\* line 50: id24.to_excel(..., index=False)
Save ==
    /\ pc = "save"
    /\ outfile' = [written |-> TRUE, rows |-> id24]
    /\ pc' = "done"
    /\ UNCHANGED <<text, normalized, renormalized, area, ret, loaded, fileB, id24,
                   country, norm_long, norm_short, all_names, score>>

Next ==
    \/ LoadId24 \/ LoadId24Fails
    \/ LoadCountry \/ LoadCountryFails
    \/ NormLong \/ NormShort \/ BuildAllNames
    \/ Apply
    \/ Save

Spec == Init /\ [][Next]_vars

(***************************************************************************)
(* Specification SpecNorm: normalize applied to a drawn text, then to its  *)
(* own result.                                                             *)
(***************************************************************************)
NormAlphabet == {"t", "h", "e", "T", " ", "(", ")", ".", "\n"}

RECURSIVE StringsUpTo(_)
StringsUpTo(n) ==
    IF n = 0 THEN {<<>>}
    ELSE LET shorter == StringsUpTo(n - 1)
         IN  shorter \cup {Append(s, c) : s \in {x \in shorter : Len(x) = n - 1},
                                          c \in NormAlphabet}

Bolivia == <<"B", "o", "l", "i", "v", "i", "a", " ", "(", "P", "l", "u", "r", "i",
             "n", "a", "t", "i", "o", "n", "a", "l", " ", "S", "t", "a", "t", "e",
             " ", "o", "f", ")">>

NormInputs ==
    {Text(s) : s \in StringsUpTo(MaxLen)} \cup {Text(Bolivia), Text(TheBahamas), NaN}


InitNorm ==
    /\ pc = "norm_call"
    /\ text \in NormInputs
    /\ normalized = <<>>
    /\ renormalized = <<>>
    /\ area = NaN
    /\ ret = "unset"
    /\ loaded = {}
    /\ fileB = <<>>
    /\ id24 = <<>>
    /\ country = <<>>
    /\ norm_long = <<>>
    /\ norm_short = <<>>
    /\ all_names = <<>>
    /\ score = <<>>
    /\ outfile = NotWritten

Normalize ==
    /\ pc = "norm_call"
    /\ normalized' = normalize(text)
    /\ pc' = "norm_returned"
    /\ UNCHANGED <<text, renormalized, area, ret, loaded, fileB, id24, country, norm_long,
                   norm_short, all_names, score, outfile>>

Renormalize ==
    /\ pc = "norm_returned"
    /\ renormalized' = normalize(Text(normalized))
    /\ pc' = "norm_again"
    /\ UNCHANGED <<text, normalized, area, ret, loaded, fileB, id24, country, norm_long,
                   norm_short, all_names, score, outfile>>

NextNorm == Normalize \/ Renormalize

SpecNorm == InitNorm /\ [][NextNorm]_vars

(***************************************************************************)
(* Claims about normalize (checked under SpecNorm).                        *)
(***************************************************************************)

\* C5: normalize is idempotent: normalizing the result of normalize returns
\* that result unchanged, whatever the text (nested or unbalanced
\* parentheses, punctuation inside "the", runs of spaces).
C5_NormalizeIdempotent ==
    pc = "norm_again" => renormalized = normalized

\* a text that the first pass really changed: it held parentheses or the
\* word "the", and something is left of it
C5_Witness ==
    /\ pc = "norm_again"
    /\ normalized # <<>>
    /\ Len(normalized) < Len(str(text))
    /\ \E i \in 1..Len(str(text)) : str(text)[i] \in {"(", ".", " "}

\* number of "(" minus number of ")" among the first i characters of s
Depth(s, i) ==
    Cardinality({k \in 1..i : s[k] = "("}) - Cardinality({k \in 1..i : s[k] = ")"})

\* the parentheses of s are balanced and not nested
SimpleParens(s) ==
    /\ \A i \in 1..Len(s) : Depth(s, i) \in {0, 1}
    /\ Depth(s, Len(s)) = 0

\* s[i] stood between a "(" and its ")"
Enclosed(s, i) == s[i] # "(" /\ Depth(s, i) = 1

\* the characters of s, from position i on, that are neither a parenthesis
\* nor enclosed by a pair
RECURSIVE OutsideFrom(_, _)
OutsideFrom(s, i) ==
    IF i > Len(s) THEN <<>>
    ELSE IF s[i] \in {"(", ")"} \/ Enclosed(s, i) THEN OutsideFrom(s, i + 1)
         ELSE <<s[i]>> \o OutsideFrom(s, i + 1)

\* a can be read off b from left to right, skipping characters of b
RECURSIVE IsSubseq(_, _)
IsSubseq(a, b) ==
    IF a = <<>> THEN TRUE
    ELSE IF b = <<>> THEN FALSE
    ELSE IF Head(a) = Head(b) THEN IsSubseq(Tail(a), Tail(b))
    ELSE IsSubseq(a, Tail(b))

\* C6: normalize removes every parenthesized substring with its parentheses:
\* the output never holds "(" or ")", and when the parentheses of the input
\* are balanced and not nested the output is made only of characters that
\* stood outside them; "Bolivia (Plurinational State of)" gives "bolivia".
C6_ParenthesizedRemoved ==
    pc # "norm_call" =>
        /\ \A i \in 1..Len(normalized) : normalized[i] \notin {"(", ")"}
        /\ SimpleParens(str(text)) =>
               IsSubseq(normalized, lower(OutsideFrom(str(text), 1)))
        /\ text = Text(Bolivia) => normalized = <<"b", "o", "l", "i", "v", "i", "a">>

(***************************************************************************)
(* Claims about match_iso3 (checked under SpecMatch).                      *)
(***************************************************************************)

\* the rows of the table one of whose names is the area cell itself
OwnRows == {i \in 1..Len(country) :
                area \in {country[i].longName_EN, country[i].shortName_EN}}

\* the rows of the table one of whose normalized names is n
Carriers(n) == {i \in 1..Len(country) :
                    \/ normalize(country[i].longName_EN) = n
                    \/ normalize(country[i].shortName_EN) = n}

\* the highest score any candidate of the pool gets for query q
BestScore(q) ==
    LET got == {score[<<q, all_names[k]>>] : k \in 1..Len(all_names)}
    IN  CHOOSE v \in got : \A w \in got : w <= v

\* the ISO3 codes of the reference table
TableCodes == {country[i].ISO3Code : i \in 1..Len(country)}

\* C1 as stated: match_iso3 on a row's own longName or shortName returns
\* that row's ISO3Code, for every reference table and every row.
C1_RoundTrip ==
    pc = "match_returned" => \A i \in OwnRows : ret = country[i].ISO3Code

\* the normalized name n of row i decides the match for row i: it is not
\* empty, not the overridden "czechia", no other candidate standing before
\* it in the pool also gets the top score, and every earlier row carrying
\* it has the ISO3Code of row i
OwnNameDecides(i, n) ==
    /\ n # <<>>
    /\ n # Czechia
    /\ \A k \in 1..Len(all_names) :
           (all_names[k] # n /\ score[<<n, all_names[k]>>] = 100)
               => \E h \in 1..(k - 1) : all_names[h] = n
    /\ \A j \in Carriers(n) : j < i => country[j].ISO3Code = country[i].ISO3Code

\* C1 amended: match_iso3 on a row's own longName or shortName returns that
\* row's ISO3Code when the normalized name is non-empty and not "czechia",
\* no other candidate earlier in the pool ties the top score, and no earlier
\* row with another ISO3Code carries the same normalized name.
C1_RoundTripUnambiguous ==
    pc = "match_returned" =>
        \A i \in OwnRows : OwnNameDecides(i, normalize(area)) => ret = country[i].ISO3Code

\* the second row's own short name is matched and gives the second row's code
C1_Witness ==
    /\ pc = "match_returned"
    /\ Len(country) = 2
    /\ 2 \in OwnRows
    /\ area = country[2].shortName_EN
    /\ country[1].ISO3Code # country[2].ISO3Code
    /\ OwnNameDecides(2, normalize(area))
    /\ ret = country[2].ISO3Code

\* C2 as stated: match_iso3 never raises: whatever the area cell and the
\* reference table (the empty one included), the call returns an ISO3 code
\* or the null "no match".
C2_NeverRaises ==
    pc = "match_returned" => ret # TypeError

\* C3: an area whose normalized form is "czechia" gets "CZE", whatever the
\* reference table holds.
C3_CzechiaOverride ==
    (pc = "match_returned" /\ normalize(area) = Czechia) => ret = "CZE"

\* the override decided against a table that has a "czechia" row with
\* another code, for an area that is not literally "czechia"
C3_Witness ==
    /\ pc = "match_returned"
    /\ normalize(area) = Czechia
    /\ str(area) # Czechia
    /\ Carriers(Czechia) # {}
    /\ "CZE" \notin TableCodes
    /\ ret = "CZE"

\* C4: for an area that does not normalize to "czechia", a best score of 90
\* or more gives an ISO3 code of the reference table (never "no match"), and
\* a best score below 90 gives "no match".
C4_ThresholdBoundary ==
    (pc = "match_returned" /\ normalize(area) # Czechia /\ all_names # <<>>) =>
        /\ BestScore(normalize(area)) >= 90 => ret \in TableCodes
        /\ BestScore(normalize(area)) < 90 => ret = None

\* a best score of exactly 90 gave a code
C4_Witness ==
    /\ pc = "match_returned"
    /\ normalize(area) # Czechia
    /\ all_names # <<>>
    /\ BestScore(normalize(area)) = 90
    /\ ret \in TableCodes

\* C9: when the best candidate (score 90 or more) is a normalized long or
\* short name of more than one reference row, match_iso3 returns the
\* ISO3Code of the first of these rows in table order.
C9_FirstCarrierWins ==
    (/\ pc = "match_returned"
     /\ normalize(area) # Czechia
     /\ all_names # <<>>
     /\ BestScore(normalize(area)) >= 90) =>
        LET rows == Carriers(extractOne(normalize(area), all_names)[1])
        IN  Cardinality(rows) > 1 =>
                \E i \in rows : /\ \A j \in rows : i <= j
                                /\ ret = country[i].ISO3Code

\* two rows with different codes carry the best candidate, the first through
\* its short name only and the second through its long name
C9_Witness ==
    /\ pc = "match_returned"
    /\ normalize(area) # Czechia
    /\ Len(country) = 2
    /\ BestScore(normalize(area)) >= 90
    /\ LET m == extractOne(normalize(area), all_names)[1]
       IN  /\ normalize(country[1].shortName_EN) = m
           /\ normalize(country[1].longName_EN) # m
           /\ normalize(country[2].longName_EN) = m
    /\ country[1].ISO3Code # country[2].ISO3Code
    /\ ret = country[1].ISO3Code

(***************************************************************************)
(* Claims about the run (checked under Spec).                              *)
(***************************************************************************)

\* row i of the output carries, in every column of cols, what row i of the
\* input file carried
SameCells(i, cols) == \A c \in cols : outfile.rows[i][c] = fileB[i][c]

\* the ISO3Code of output row i is match_iso3 of the Area of input row i
OwnMatch(i) == outfile.rows[i].ISO3Code = match_iso3(fileB[i].Area)

\* C7 as stated: the output has the rows of input file B in the same order,
\* every original column value unchanged, plus the ISO3Code column, where
\* row i holds match_iso3 of row i's Area alone.
C7_DatasetUnchanged ==
    outfile.written =>
        /\ Len(outfile.rows) = Len(fileB)
        /\ \A i \in 1..Len(fileB) :
               /\ DOMAIN outfile.rows[i] = (DOMAIN fileB[i]) \cup {"ISO3Code"}
               /\ SameCells(i, DOMAIN fileB[i])
               /\ OwnMatch(i)

\* C7 amended: the output has the rows of input file B in the same order,
\* every original column other than ISO3Code unchanged, and a column
\* ISO3Code (added, or replacing the one the input had) where row i holds
\* match_iso3 of row i's Area alone.
C7_DatasetUnchangedButCode ==
    outfile.written =>
        /\ Len(outfile.rows) = Len(fileB)
        /\ \A i \in 1..Len(fileB) :
               /\ DOMAIN outfile.rows[i] = (DOMAIN fileB[i]) \cup {"ISO3Code"}
               /\ SameCells(i, (DOMAIN fileB[i]) \ {"ISO3Code"})
               /\ OwnMatch(i)

\* a written output of two rows with different areas and different codes
C7_Witness ==
    /\ outfile.written
    /\ Len(fileB) = 2
    /\ fileB[1].Area # fileB[2].Area
    /\ outfile.rows[1].ISO3Code # outfile.rows[2].ISO3Code
    /\ outfile.rows[2].ISO3Code \in {country[i].ISO3Code : i \in 1..Len(country)}

\* C8: the output file is written only after both inputs were loaded and
\* every row was matched; when a load or a match fails the run stops and
\* the output file is never written.
C8_NoPartialOutput ==
    /\ outfile.written =>
           /\ pc = "done"
           /\ loaded = {"id=24.xlsx", "country.xlsx"}
           /\ Len(outfile.rows) = Len(fileB)
           /\ \A i \in 1..Len(fileB) :
                  /\ "ISO3Code" \in DOMAIN outfile.rows[i]
                  /\ match_iso3(fileB[i].Area) # TypeError
    /\ pc = "failed" => ~outfile.written

\* a run that stopped because a match raised, both files loaded, nothing written
C8_Witness ==
    /\ pc = "failed"
    /\ loaded = {"id=24.xlsx", "country.xlsx"}
    /\ \E i \in 1..Len(fileB) : match_iso3(fileB[i].Area) = TypeError
    /\ ~outfile.written

\* C10: every value match_iso3 hands to the ISO3Code column, and so every
\* ISO3Code cell of the output, is null, "CZE", or the ISO3Code of a row of
\* the reference table.
C10_ResultRange ==
    LET range == {None, "CZE"} \cup {country[i].ISO3Code : i \in 1..Len(country)}
    IN  /\ pc \in {"save", "done"} =>
               \A i \in 1..Len(id24) : id24[i].ISO3Code \in range
        /\ outfile.written =>
               \A i \in 1..Len(outfile.rows) : outfile.rows[i].ISO3Code \in range

\* an output holding the override's code beside a code of the table or a null
C10_Witness ==
    /\ outfile.written
    /\ \E i, j \in 1..Len(outfile.rows) :
           /\ outfile.rows[i].ISO3Code = "CZE"
           /\ outfile.rows[j].ISO3Code # "CZE"
    /\ \E i \in 1..Len(outfile.rows) : outfile.rows[i].ISO3Code = None

====
